---- MODULE Spec2Model ----
(***************************************************************************)
(* Contacts backend: the authentication / refresh-token lifecycle          *)
(* (src/src/routes/auth.py over src/src/repository/users.py) and the       *)
(* owner-scoped contact store (src/src/repository/contacts.py behind       *)
(* src/src/routes/contacts.py).                                            *)
(*                                                                         *)
(* Spec          the auth flow: signup, confirmed_email, login,            *)
(*               refresh_token, and the passing of time.                   *)
(* SpecContacts  the contact routes, each called by an authenticated user. *)
(* SpecRepository the contact store called directly, with its own limit.   *)
(* SpecBirthdays  the birthday filter over the days of several years.      *)
(* SpecConcurrent signup and refresh_token interleaved at their awaits.    *)
(***************************************************************************)
EXTENDS Integers, Sequences, FiniteSets, TLC

VARIABLES
    users,      \* the users table: a sequence of rows, row i has id i
    now,        \* the clock, in granules of the tokens' exp claim
    issued,     \* the refresh tokens the token service has signed so far
    watched,    \* history: one refresh token that a refresh refused or accepted
    today,      \* the database's current_date
    contacts,   \* the contacts table: a set of rows
    nextId,     \* the next value of the contacts id sequence
    last,       \* the last request and its response
    inflight    \* the requests that are being handled step by step

vars == <<users, now, issued, watched, today, contacts, nextId, last, inflight>>

contactVars == <<today, contacts, nextId>>

-----------------------------------------------------------------------------
(* Bounds *)

\* the clock runs from 0 to MaxTime
MaxTime == 2
\* at most MaxContacts contacts are ever added
MaxContacts == 2
\* at most MaxRequests requests are handled step by step
MaxRequests == 2
\* the birthday filter is evaluated on the days of MaxYears years from
\* FirstYear on, for birth dates in as many years from FirstBirthYear on
MaxYears == 2

-----------------------------------------------------------------------------
(* Values *)

\* Python's None / SQL NULL
NoneVal == [none |-> TRUE]

Emails == {"test1@example.com", "email"}
Passwords == {"12345678", "password"}
Usernames == {"test1"}

\* lifetimes of the two token kinds, in clock granules (scaled down: the
\* access token is the short-lived one, the refresh token the long-lived one)
AccessLife == 1
RefreshLife == 2

-----------------------------------------------------------------------------
(* Calendar dates, and PostgreSQL's age() and date_part('year', ...) *)

Date(y, m, d) == [y |-> y, m |-> m, d |-> d]

IsLeap(y) == (y % 4 = 0 /\ y % 100 # 0) \/ y % 400 = 0

DaysInMonth(y, m) ==
    IF m = 2 THEN (IF IsLeap(y) THEN 29 ELSE 28)
    ELSE IF m \in {4, 6, 9, 11} THEN 30 ELSE 31

\* a is an earlier day than b
DateBefore(a, b) ==
    \/ a.y < b.y
    \/ a.y = b.y /\ a.m < b.m
    \/ a.y = b.y /\ a.m = b.m /\ a.d < b.d

PrevDay(date) ==
    IF date.d > 1 THEN Date(date.y, date.m, date.d - 1)
    ELSE IF date.m > 1 THEN Date(date.y, date.m - 1, DaysInMonth(date.y, date.m - 1))
    ELSE Date(date.y - 1, 12, 31)

\* date - cast(timedelta(days), Interval)
RECURSIVE MinusDays(_, _)
MinusDays(date, days) == IF days = 0 THEN date ELSE MinusDays(PrevDay(date), days - 1)

\* the year field of the symbolic difference later - earlier (earlier is not
\* after later): the years, less one when the month/day of later lies before
\* the month/day of earlier
YearsBetween(earlier, later) ==
    later.y - earlier.y
        - (IF later.m < earlier.m \/ (later.m = earlier.m /\ later.d < earlier.d)
           THEN 1 ELSE 0)

\* date_part('year', age(date)): age(date) is current_date - date, negative
\* when date lies in the future
DatePartYearAge(date) ==
    IF DateBefore(today, date) THEN 0 - YearsBetween(today, date)
    ELSE YearsBetween(date, today)

-----------------------------------------------------------------------------
(* Password hashing (auth_service.get_password_hash / verify_password) *)

get_password_hash(password) == [hashed |-> password]

verify_password(password, hash) == hash = [hashed |-> password]

-----------------------------------------------------------------------------
(* Token service (auth_service): a token is its payload, signed *)

Token(email, exp, scope) ==
    [sub |-> email, exp |-> exp, scope |-> scope, sig |-> "server"]

create_access_token(email) == Token(email, now + AccessLife, "access_token")

create_refresh_token(email) == Token(email, now + RefreshLife, "refresh_token")

\* a credential that was not signed with the server's secret
ForgedToken(email) ==
    [sub |-> email, exp |-> now + RefreshLife, scope |-> "refresh_token", sig |-> "other"]

\* the access token that was issued together with refresh token r
AccessTokenOf(r) == Token(r.sub, r.exp - RefreshLife + AccessLife, "access_token")

\* what a client can put in the Authorization header of /auth/refresh_token
Credentials ==
    issued \cup {AccessTokenOf(r) : r \in issued} \cup {ForgedToken(e) : e \in Emails}

\* decode_refresh_token: the subject, or an authentication error
TokenDecodes(token) ==
    /\ token.sig = "server"
    /\ token.exp > now
    /\ token.scope = "refresh_token"

decode_refresh_token(token) == IF TokenDecodes(token) THEN [email |-> token.sub] ELSE NoneVal

-----------------------------------------------------------------------------
(* User store (src/src/repository/users.py) *)

UserRows(email) == {i \in DOMAIN users : users[i].email = email}

\* a mutation of get_user_by_email that filters on the wrong column
get_user_by_username(email) ==
    LET rows == {i \in DOMAIN users : users[i].username = email}
    IN  IF rows = {} THEN NoneVal ELSE users[CHOOSE i \in rows : TRUE]

\* select(User).filter_by(email=email) ... scalar_one_or_none()
get_user_by_email(email) ==
    IF UserRows(email) = {} THEN NoneVal ELSE users[CHOOSE i \in UserRows(email) : TRUE]

\* Gravatar(body.email).get_image(): the image URL, which is computed from
\* the email alone (the except branch, avatar = None, is not explored)
GravatarImage(email) == [gravatar |-> email]

\* a mutation of create_user whose rows start out confirmed
create_user_confirmed(body, avatar) ==
    Append(users, [id |-> Len(users) + 1,
                   email |-> body.email,
                   username |-> body.username,
                   hash |-> body.hash,
                   avatar |-> avatar,
                   confirmed |-> TRUE,
                   refresh_token |-> NoneVal])

\* User(**body.model_dump(), avatar=avatar); db.add; commit; refresh; the
\* columns body does not set take their defaults (confirmed: false,
\* refresh_token: null)
create_user(body, avatar) ==
    Append(users, [id |-> Len(users) + 1,
                   email |-> body.email,
                   username |-> body.username,
                   hash |-> body.hash,
                   avatar |-> avatar,
                   confirmed |-> FALSE,
                   refresh_token |-> NoneVal])

\* a mutation of update_token that skips the write of a null token
update_token_keeps_on_null(user, token) ==
    IF token = NoneVal THEN users ELSE [users EXCEPT ![user.id].refresh_token = token]

\* a mutation of update_token that writes a new token only over a null one
update_token_keeps_old(user, token) ==
    IF token # NoneVal /\ users[user.id].refresh_token # NoneVal THEN users
    ELSE [users EXCEPT ![user.id].refresh_token = token]

\* user.refresh_token = token; commit
update_token(user, token) == [users EXCEPT ![user.id].refresh_token = token]

\* user = get_user_by_email(email); user.confirmed = True; commit
\* a mutation of confirmed_email that commits without setting the flag
confirmed_email_no_write(email) == users

confirmed_email(email) ==
    [users EXCEPT ![get_user_by_email(email).id].confirmed = TRUE]

-----------------------------------------------------------------------------
(* Responses *)

Response(op, arg, status, detail, result, before) ==
    [op |-> op, arg |-> arg, status |-> status, detail |-> detail,
     result |-> result, before |-> before]

\* UserValidationSchemaResponse: the user without its hash
UserResponse(user) ==
    [id |-> user.id, email |-> user.email, username |-> user.username,
     avatar |-> user.avatar]

TokenSchema(access, refresh) ==
    [access_token |-> access, refresh_token |-> refresh, token_type |-> "bearer"]

-----------------------------------------------------------------------------
(* Requests handled step by step *)

\* the requests that can be in flight, and a request that has not come in
Requests == 1..MaxRequests

Idle ==
    [op |-> "none", pc |-> "idle", arg |-> NoneVal, user |-> NoneVal,
     pending |-> NoneVal, during |-> {}, response |-> NoneVal]

NoRequests == [r \in Requests |-> Idle]

-----------------------------------------------------------------------------
(* History of one refresh token.  A refresh that refuses a token for not    *)
(* matching the stored one, or accepts it, may start watching that token;  *)
(* from then on `again` tells whether the token service has issued an      *)
(* identical token since.                                                  *)

NotWatching == [token |-> NoneVal, event |-> "none", again |-> FALSE]

\* a later issue of `token` is noted on the watched token
NoteIssue(w, token) == IF w.token = token THEN [w EXCEPT !.again = TRUE] ELSE w

\* the watch after `event` on `token`: kept, or started on this token
Watches(event, token) ==
    {watched, [token |-> token, event |-> event, again |-> FALSE]}

-----------------------------------------------------------------------------
(* Auth routes (src/src/routes/auth.py) *)

Init ==
    /\ users = <<>>
    /\ now = 0
    /\ issued = {}
    /\ watched = NotWatching
    /\ inflight = NoRequests
    /\ today = Date(2024, 12, 28)
    /\ contacts = {}
    /\ nextId = 1
    /\ last = Response("init", NoneVal, 0, "", NoneVal, NoneVal)

\* POST /auth/signup
signup(body, avatar) ==
    LET exist_user == get_user_by_email(body.email)
        hashed == [body EXCEPT !.hash = get_password_hash(body.hash)]
    IN  /\ IF exist_user # NoneVal
           THEN /\ users' = users
                /\ last' = Response("signup", body, 409, "Account already exists",
                                    NoneVal, NoneVal)
           ELSE /\ users' = create_user(hashed, avatar)
                /\ last' = Response("signup", body, 201, "",
                                    UserResponse(users'[Len(users')]), NoneVal)
        /\ UNCHANGED <<now, issued, watched, contactVars, inflight>>

\* GET /auth/confirmed_email/{token}; email is what get_email_from_token
\* extracts from the token
confirmed_email_route(email) ==
    LET user == get_user_by_email(email)
    IN  /\ IF user = NoneVal
           THEN /\ users' = users
                /\ last' = Response("confirmed_email", [email |-> email], 400,
                                    "Verification error", NoneVal, NoneVal)
           ELSE IF user.confirmed
           THEN /\ users' = users
                /\ last' = Response("confirmed_email", [email |-> email], 200, "",
                                    [message |-> "Your email is already confirmed"], NoneVal)
           ELSE /\ users' = confirmed_email(email)
                /\ last' = Response("confirmed_email", [email |-> email], 200, "",
                                    [message |-> "Email confirmed"], NoneVal)
        /\ UNCHANGED <<now, issued, watched, contactVars, inflight>>

\* the swapped order a mutation of login_error tries: password before confirmation
login_error_password_first(user, password) ==
    IF user = NoneVal THEN "Invalid email"
    ELSE IF ~verify_password(password, user.hash) THEN "Invalid password"
    ELSE IF ~user.confirmed THEN "Email not confirmed"
    ELSE ""

\* a mutation of login_error that lost the `not` of the password check
login_error_inverted_password(user, password) ==
    IF user = NoneVal THEN "Invalid email"
    ELSE IF ~user.confirmed THEN "Email not confirmed"
    ELSE IF verify_password(password, user.hash) THEN "Invalid password"
    ELSE ""

\* the three checks of login, in the order of the code: the detail of the
\* HTTPException that is raised, or "" when none is
login_error(user, password) ==
    IF user = NoneVal THEN "Invalid email"
    ELSE IF ~user.confirmed THEN "Email not confirmed"
    ELSE IF ~verify_password(password, user.hash) THEN "Invalid password"
    ELSE ""

\* POST /auth/login
login(body) ==
    LET user == get_user_by_email(body.username)
        error == login_error(user, body.password)
        access_token == create_access_token(user.email)
        refresh_token == create_refresh_token(user.email)
    IN  /\ IF error # ""
           THEN /\ last' = Response("login", body, 401, error, NoneVal, NoneVal)
                /\ UNCHANGED <<users, issued, watched>>
           ELSE /\ users' = update_token(user, refresh_token)
                /\ issued' = issued \cup {refresh_token}
                /\ watched' = NoteIssue(watched, refresh_token)
                /\ last' = Response("login", body, 200, "",
                                    TokenSchema(access_token, refresh_token), NoneVal)
        /\ UNCHANGED <<now, contactVars, inflight>>

\* GET /auth/refresh_token
refresh_token(token) ==
    LET decoded == decode_refresh_token(token)
        email == decoded.email
        user == get_user_by_email(email)
        access_token == create_access_token(email)
        new_refresh_token == create_refresh_token(email)
        before == [stored |-> IF decoded = NoneVal \/ user = NoneVal
                              THEN NoneVal ELSE user.refresh_token,
                   watched |-> watched]
    IN  /\ IF decoded = NoneVal
           THEN \* decode_refresh_token raises its authentication error (401;
                \* the detail is the token service's)
                /\ last' = Response("refresh_token", token, 401,
                                    "Could not validate credentials", NoneVal, before)
                /\ UNCHANGED <<users, issued, watched>>
           ELSE IF user = NoneVal
           THEN \* user.refresh_token on None raises AttributeError
                /\ last' = Response("refresh_token", token, 500,
                                    "Internal Server Error", NoneVal, before)
                /\ UNCHANGED <<users, issued, watched>>
           ELSE IF user.refresh_token # token
           THEN /\ users' = update_token(user, NoneVal)
                /\ watched' \in Watches("rejected", token)
                /\ last' = Response("refresh_token", token, 401,
                                    "Invalid refresh token", NoneVal, before)
                /\ UNCHANGED issued
           ELSE /\ users' = update_token(user, new_refresh_token)
                /\ issued' = issued \cup {new_refresh_token}
                /\ \E w \in Watches("accepted", token) :
                        watched' = NoteIssue(w, new_refresh_token)
                /\ last' = Response("refresh_token", token, 200, "",
                                    TokenSchema(access_token, new_refresh_token), before)
        /\ UNCHANGED <<now, contactVars, inflight>>

\* time passes between two requests
Tick ==
    /\ now < MaxTime
    /\ now' = now + 1
    /\ UNCHANGED <<users, issued, watched, contactVars, last, inflight>>

SignupBodies == [email : Emails, username : Usernames, hash : {"12345678"}]

LoginBodies == [username : Emails, password : Passwords]

Next ==
    \/ \E body \in SignupBodies : signup(body, GravatarImage(body.email))
    \/ \E email \in Emails : confirmed_email_route(email)
    \/ \E body \in LoginBodies : login(body)
    \/ \E token \in Credentials : refresh_token(token)
    \/ Tick

Spec == Init /\ [][Next]_vars

-----------------------------------------------------------------------------
(* Contact store (src/src/repository/contacts.py) *)

\* the columns a request body fills
ContactBody(name, last_name, email, phone_number, birth_date, rest) ==
    [name |-> name, last_name |-> last_name, email |-> email,
     phone_number |-> phone_number, birth_date |-> birth_date, rest |-> rest]

Bodies ==
    {ContactBody("test", "test", "test1@mail.com", "1", Date(2000, 1, 2), "test"),
     ContactBody("ann", "lee", "ann@mail.com", "2", Date(1990, 6, 15), "friend")}

\* the body of a contact row
BodyOf(contact) ==
    ContactBody(contact.name, contact.last_name, contact.email,
                contact.phone_number, contact.birth_date, contact.rest)

age_years_at(sa_col, next_days) ==
    DatePartYearAge(IF next_days # 0 THEN MinusDays(sa_col, next_days) ELSE sa_col)

\* a mutation of has_birthday_next_days that compares with >=
has_birthday_next_days_not_strict(sa_col, next_days) ==
    age_years_at(sa_col, next_days) >= age_years_at(sa_col, 0)

has_birthday_next_days(sa_col, next_days) ==
    age_years_at(sa_col, next_days) > age_years_at(sa_col, 0)

\* a mutation of the WHERE clause that lost the filter on the email
ReadAllWhere_without_email(c, name, last_name, email, find_BD, user_id) ==
    /\ c.user_id = user_id
    /\ name # "" => c.name = name
    /\ last_name # "" => c.last_name = last_name
    /\ find_BD => has_birthday_next_days(c.birth_date, 7)

\* the WHERE clause of read_all_contacts; a filter that is falsy ("" stands
\* for both None and the empty string) adds no condition
ReadAllWhere(c, name, last_name, email, find_BD, user_id) ==
    /\ c.user_id = user_id
    /\ name # "" => c.name = name
    /\ last_name # "" => c.last_name = last_name
    /\ email # "" => c.email = email
    /\ find_BD => has_birthday_next_days(c.birth_date, 7)

Min(a, b) == IF a < b THEN a ELSE b

\* OFFSET offset LIMIT limit over rows that come in no stated order: any
\* choice of rows of the size that is left after skipping `offset` of them
read_all_contacts(limit, offset, name, last_name, email, find_BD, user_id) ==
    LET rows == {c \in contacts : ReadAllWhere(c, name, last_name, email, find_BD, user_id)}
        left == IF Cardinality(rows) > offset THEN Cardinality(rows) - offset ELSE 0
    IN  {page \in SUBSET rows : Cardinality(page) = Min(limit, left)}

\* a mutation of read_contact that lost the filter on the owner
read_contact_any_owner(contact_id, user_id) ==
    LET rows == {c \in contacts : c.id = contact_id}
    IN  IF rows = {} THEN NoneVal ELSE CHOOSE c \in rows : TRUE

\* select(Contact).filter_by(id=contact_id).filter_by(user_id=user_id)
\* ... scalar_one_or_none()
read_contact(contact_id, user_id) ==
    LET rows == {c \in contacts : c.id = contact_id /\ c.user_id = user_id}
    IN  IF rows = {} THEN NoneVal ELSE CHOOSE c \in rows : TRUE

\* a mutation of add_contact that does not pass the notes on
add_contact_drops_rest(body, user_id) ==
    [id |-> nextId, user_id |-> user_id,
     name |-> body.name, last_name |-> body.last_name, email |-> body.email,
     phone_number |-> body.phone_number, birth_date |-> body.birth_date,
     rest |-> ""]

\* Contact(**body.model_dump(exclude_unset=True), user_id=user_id), with the
\* id the database generates
add_contact(body, user_id) ==
    [id |-> nextId, user_id |-> user_id,
     name |-> body.name, last_name |-> body.last_name, email |-> body.email,
     phone_number |-> body.phone_number, birth_date |-> body.birth_date,
     rest |-> body.rest]

\* the row update_contact commits: name, email and rest are columns of
\* Contact; lastName, phoneNumber and birthDate are not (the columns are
\* last_name, phone_number, birth_date), so those assignments reach no column
update_contact(contact, body) ==
    [contact EXCEPT !.name = body.name, !.email = body.email, !.rest = body.rest]

\* the object update_contact returns: the refreshed row, and the attributes
\* the assignments left on the object
UpdatedObject(row, body) ==
    [id |-> row.id, user_id |-> row.user_id,
     name |-> row.name, last_name |-> row.last_name, email |-> row.email,
     phone_number |-> row.phone_number, birth_date |-> row.birth_date,
     rest |-> row.rest,
     lastName |-> body.last_name, phoneNumber |-> body.phone_number,
     birthDate |-> body.birth_date]

\* a mutation of delete_contact that deletes every contact of the owner
delete_contact_of_owner(contact) == {c \in contacts : c.user_id # contact.user_id}

\* db.delete(contact); commit
delete_contact(contact) == contacts \ {contact}

-----------------------------------------------------------------------------
(* Contact routes (src/src/routes/contacts.py).  current_user is the user  *)
(* auth_service.get_current_user has loaded for the request's access token. *)
(* A response's result is what the store returned to the route.             *)

\* limit: int = Query(default=10, ge=10, le=10)
PageSize == 10

\* GET /contacts/
read_all_contacts_route(current_user, offset, name, last_name, email, find_BD) ==
    /\ \E page \in read_all_contacts(PageSize, offset, name, last_name, email,
                                     find_BD, current_user.id) :
            last' = Response("read_all_contacts",
                             [user_id |-> current_user.id, limit |-> PageSize,
                              offset |-> offset, name |-> name,
                              last_name |-> last_name, email |-> email,
                              find_BD |-> find_BD],
                             200, "", [contacts |-> page], NoneVal)
    /\ UNCHANGED <<users, now, issued, watched, contactVars, inflight>>

\* GET /contacts/{contact_id}; a None result does not validate against the
\* response_model, which FastAPI answers with 500
read_contact_route(current_user, contact_id) ==
    LET contact == read_contact(contact_id, current_user.id)
    IN  /\ last' = Response("read_contact",
                            [user_id |-> current_user.id, contact_id |-> contact_id],
                            IF contact = NoneVal THEN 500 ELSE 200,
                            IF contact = NoneVal THEN "Internal Server Error" ELSE "",
                            contact, NoneVal)
        /\ UNCHANGED <<users, now, issued, watched, contactVars, inflight>>

\* POST /contacts/
add_contact_route(current_user, body) ==
    LET contact == add_contact(body, current_user.id)
    IN  /\ nextId <= MaxContacts
        /\ contacts' = contacts \cup {contact}
        /\ nextId' = nextId + 1
        /\ last' = Response("add_contact",
                            [user_id |-> current_user.id, body |-> body],
                            201, "", contact, NoneVal)
        /\ UNCHANGED <<users, now, issued, watched, today, inflight>>

\* PUT /contacts/{contact_id}; no response_model: None is answered as 200 null
update_contact_route(current_user, contact_id, body) ==
    LET contact == read_contact(contact_id, current_user.id)
        arg == [user_id |-> current_user.id, contact_id |-> contact_id, body |-> body]
    IN  /\ IF contact # NoneVal
           THEN /\ contacts' = (contacts \ {contact}) \cup {update_contact(contact, body)}
                /\ last' = Response("update_contact", arg, 200, "",
                                    UpdatedObject(update_contact(contact, body), body),
                                    NoneVal)
           ELSE /\ contacts' = contacts
                /\ last' = Response("update_contact", arg, 200, "", NoneVal, NoneVal)
        /\ UNCHANGED <<users, now, issued, watched, today, nextId, inflight>>

\* DELETE /contacts/{contact_id}; 204 whatever the store returned
delete_contact_route(current_user, contact_id) ==
    LET contact == read_contact(contact_id, current_user.id)
    IN  /\ contacts' = IF contact # NoneVal THEN delete_contact(contact) ELSE contacts
        /\ last' = Response("delete_contact",
                            [user_id |-> current_user.id, contact_id |-> contact_id],
                            204, "", contact, NoneVal)
        /\ UNCHANGED <<users, now, issued, watched, today, nextId, inflight>>

\* two users that have signed up, confirmed their email and logged in
ConfirmedUser(id, email) ==
    [id |-> id, email |-> email, username |-> "test1",
     hash |-> get_password_hash("12345678"), avatar |-> GravatarImage(email),
     confirmed |-> TRUE,
     refresh_token |-> Token(email, RefreshLife, "refresh_token")]

\* the days on which the contact routes are exercised
Todays == {Date(2024, 12, 28), Date(2024, 6, 10)}

InitContacts ==
    /\ users = <<ConfirmedUser(1, "test1@example.com"), ConfirmedUser(2, "email")>>
    /\ now = 0
    /\ issued = {users[i].refresh_token : i \in DOMAIN users}
    /\ watched = NotWatching
    /\ inflight = NoRequests
    /\ today \in Todays
    /\ contacts = {}
    /\ nextId = 1
    /\ last = Response("init", NoneVal, 0, "", NoneVal, NoneVal)

CurrentUsers == {users[i] : i \in DOMAIN users}

ContactIds == 1..MaxContacts

ListQuery(offset, name, last_name, email, find_BD) ==
    [offset |-> offset, name |-> name, last_name |-> last_name, email |-> email,
     find_BD |-> find_BD]

\* the query strings of GET /contacts/ that are tried
ListQueries ==
    {ListQuery(0, "", "", "", FALSE),
     ListQuery(1, "", "", "", FALSE),
     ListQuery(0, "test", "", "", FALSE),
     ListQuery(0, "", "lee", "", FALSE),
     ListQuery(0, "", "", "ann@mail.com", FALSE),
     ListQuery(0, "ann", "test", "", FALSE),
     ListQuery(0, "", "", "", TRUE),
     ListQuery(0, "test", "test", "test1@mail.com", TRUE)}

NextContacts ==
    \/ \E u \in CurrentUsers, q \in ListQueries :
            read_all_contacts_route(u, q.offset, q.name, q.last_name, q.email, q.find_BD)
    \/ \E u \in CurrentUsers, id \in ContactIds : read_contact_route(u, id)
    \/ \E u \in CurrentUsers, body \in Bodies : add_contact_route(u, body)
    \/ \E u \in CurrentUsers, id \in ContactIds, body \in Bodies :
            update_contact_route(u, id, body)
    \/ \E u \in CurrentUsers, id \in ContactIds : delete_contact_route(u, id)

SpecContacts == InitContacts /\ [][NextContacts]_vars

-----------------------------------------------------------------------------
(* The contact store called directly, as the unit tests call it, next to   *)
(* the list route                                                          *)

\* the limits read_all_contacts is called with: a page of one row, and the
\* page of the route (and of test_read_all_contacts)
Limits == {1, PageSize}

\* await read_all_contacts(limit, offset, name, last_name, email, find_BD,
\*                         db, user_id); there is no HTTP response
read_all_contacts_call(limit, offset, name, last_name, email, find_BD, user_id) ==
    /\ \E page \in read_all_contacts(limit, offset, name, last_name, email,
                                     find_BD, user_id) :
            last' = Response("read_all_contacts",
                             [user_id |-> user_id, limit |-> limit,
                              offset |-> offset, name |-> name,
                              last_name |-> last_name, email |-> email,
                              find_BD |-> find_BD],
                             0, "", [contacts |-> page], NoneVal)
    /\ UNCHANGED <<users, now, issued, watched, contactVars, inflight>>

NextRepository ==
    \/ \E u \in CurrentUsers, q \in ListQueries, limit \in Limits :
            read_all_contacts_call(limit, q.offset, q.name, q.last_name, q.email,
                                   q.find_BD, u.id)
    \/ \E u \in CurrentUsers, q \in ListQueries :
            read_all_contacts_route(u, q.offset, q.name, q.last_name, q.email, q.find_BD)
    \/ \E u \in CurrentUsers, body \in Bodies : add_contact_route(u, body)
    \/ \E u \in CurrentUsers, id \in ContactIds : delete_contact_route(u, id)

SpecRepository == InitContacts /\ [][NextRepository]_vars

-----------------------------------------------------------------------------
(* The birthday filter on the days around the turn of the year and around  *)
(* the end of February, for one stored contact                             *)

\* 2024 is a leap year and 2025 is not; 2000 is a leap year and 2001 is not
FirstYear == 2024
FirstBirthYear == 2000

\* the months around the turn of the year and the end of February
Months == {12, 1, 2, 3}

DatesOf(years) ==
    {date \in {Date(y, mm, d) : y \in years, mm \in Months, d \in 1..31} :
        date.d <= DaysInMonth(date.y, date.m)}

TodayDates == DatesOf(FirstYear..(FirstYear + MaxYears - 1))

BirthDates == DatesOf(FirstBirthYear..(FirstBirthYear + MaxYears - 1))

\* the look-aheads the filter is evaluated with: the default of
\* has_birthday_next_days and the one read_all_contacts passes
LookAheads == {0, 7}

\* select(Contact).filter(has_birthday_next_days(Contact.birth_date, next_days))
has_birthday_next_days_query(next_days) ==
    /\ last' = Response("has_birthday_next_days", [next_days |-> next_days], 200, "",
                        [contacts |-> {c \in contacts :
                                        has_birthday_next_days(c.birth_date, next_days)}],
                        NoneVal)
    /\ UNCHANGED <<users, now, issued, watched, contactVars, inflight>>

InitBirthdays ==
    /\ users = <<ConfirmedUser(1, "test1@example.com"), ConfirmedUser(2, "email")>>
    /\ now = 0
    /\ issued = {users[i].refresh_token : i \in DOMAIN users}
    /\ watched = NotWatching
    /\ inflight = NoRequests
    /\ today \in TodayDates
    /\ \E birth_date \in BirthDates :
            contacts = {[id |-> 1, user_id |-> 1, name |-> "test", last_name |-> "test",
                         email |-> "test1@mail.com", phone_number |-> "1",
                         birth_date |-> birth_date, rest |-> "test"]}
    /\ nextId = 2
    /\ last = Response("init", NoneVal, 0, "", NoneVal, NoneVal)

NextBirthdays ==
    \/ \E next_days \in LookAheads : has_birthday_next_days_query(next_days)
    \/ \E u \in CurrentUsers : read_all_contacts_route(u, 0, "", "", "", TRUE)

SpecBirthdays == InitBirthdays /\ [][NextBirthdays]_vars

-----------------------------------------------------------------------------
(* Signup and refresh handled step by step.  A handler runs up to its next *)
(* await of the database and other requests run in between: signup awaits  *)
(* get_user_by_email and then create_user, refresh_token awaits            *)
(* get_user_by_email and then update_token.  Each request has its own      *)
(* session, so the row a request has loaded is its own copy.               *)

\* the requests of one kind that are between their two steps
InFlight(op) == {q \in Requests : inflight[q].op = op /\ inflight[q].pc = "waiting"}

\* request r has come in and waits for its second step
Waiting(op, arg, user, pending, response) ==
    [op |-> op, pc |-> "waiting", arg |-> arg, user |-> user, pending |-> pending,
     during |-> InFlight(op), response |-> response]

\* users.email is unique: the commit of a second row with the email fails
EmailTaken(email) == UserRows(email) # {}

\* signup up to the end of `await get_user_by_email`
signup_check(r, body) ==
    LET exist_user == get_user_by_email(body.email)
        conflict == Response("signup", body, 409, "Account already exists",
                             NoneVal, NoneVal)
    IN  /\ inflight[r].pc = "idle"
        /\ IF exist_user # NoneVal
           THEN /\ inflight' = [inflight EXCEPT ![r] =
                        [Idle EXCEPT !.op = "signup", !.pc = "done", !.arg = body,
                                     !.during = InFlight("signup"),
                                     !.response = conflict]]
                /\ last' = conflict
           ELSE /\ inflight' = [inflight EXCEPT ![r] =
                        Waiting("signup", body, NoneVal, NoneVal, NoneVal)]
                /\ last' = last
        /\ UNCHANGED <<users, now, issued, watched, contactVars>>

\* signup from get_password_hash on: create_user commits the new row, or the
\* commit fails on the unique email and the exception leaves the handler
signup_insert(r) ==
    LET body == inflight[r].arg
        hashed == [body EXCEPT !.hash = get_password_hash(body.hash)]
        response == IF EmailTaken(body.email)
                    THEN Response("signup", body, 500, "Internal Server Error",
                                  NoneVal, NoneVal)
                    ELSE Response("signup", body, 201, "",
                                  UserResponse(users'[Len(users')]), NoneVal)
    IN  /\ inflight[r].op = "signup"
        /\ inflight[r].pc = "waiting"
        /\ users' = IF EmailTaken(body.email) THEN users
                    ELSE create_user(hashed, GravatarImage(body.email))
        /\ inflight' = [inflight EXCEPT ![r].pc = "done", ![r].response = response]
        /\ last' = response
        /\ UNCHANGED <<now, issued, watched, contactVars>>

\* refresh_token up to the end of `await get_user_by_email`, the comparison
\* with the loaded row and the creation of the new tokens
refresh_load(r, token) ==
    LET decoded == decode_refresh_token(token)
        email == decoded.email
        user == get_user_by_email(email)
        access_token == create_access_token(email)
        new_refresh_token == create_refresh_token(email)
        failed == IF decoded = NoneVal
                  THEN Response("refresh_token", token, 401,
                                "Could not validate credentials", NoneVal, NoneVal)
                  ELSE Response("refresh_token", token, 500,
                                "Internal Server Error", NoneVal, NoneVal)
    IN  /\ inflight[r].pc = "idle"
        /\ IF decoded = NoneVal \/ user = NoneVal
           THEN /\ inflight' = [inflight EXCEPT ![r] =
                        [Idle EXCEPT !.op = "refresh_token", !.pc = "done",
                                     !.arg = token,
                                     !.during = InFlight("refresh_token"),
                                     !.response = failed]]
                /\ last' = failed
                /\ issued' = issued
           ELSE IF user.refresh_token # token
           THEN /\ inflight' = [inflight EXCEPT ![r] =
                        Waiting("refresh_token", token, user, NoneVal,
                                Response("refresh_token", token, 401,
                                         "Invalid refresh token", NoneVal,
                                         [stored |-> user.refresh_token]))]
                /\ last' = last
                /\ issued' = issued
           ELSE /\ inflight' = [inflight EXCEPT ![r] =
                        Waiting("refresh_token", token, user, new_refresh_token,
                                Response("refresh_token", token, 200, "",
                                         TokenSchema(access_token, new_refresh_token),
                                         [stored |-> user.refresh_token]))]
                /\ last' = last
                /\ issued' = issued \cup {new_refresh_token}
        /\ UNCHANGED <<users, now, watched, contactVars>>

\* refresh_token from `await update_token` on: the session writes the
\* refresh_token column of the row it loaded when the value it was given
\* differs from the loaded one, and the response goes out
refresh_store(r) ==
    LET user == inflight[r].user
        token == inflight[r].pending
    IN  /\ inflight[r].op = "refresh_token"
        /\ inflight[r].pc = "waiting"
        /\ users' = IF token = user.refresh_token THEN users
                    ELSE update_token(user, token)
        /\ inflight' = [inflight EXCEPT ![r].pc = "done"]
        /\ last' = inflight[r].response
        /\ UNCHANGED <<now, issued, watched, contactVars>>

\* one user has signed up, confirmed and logged in; the other email is free
InitConcurrent ==
    /\ users = <<ConfirmedUser(1, "test1@example.com")>>
    /\ now = 0
    /\ issued = {users[i].refresh_token : i \in DOMAIN users}
    /\ watched = NotWatching
    /\ inflight = NoRequests
    /\ today = Date(2024, 12, 28)
    /\ contacts = {}
    /\ nextId = 1
    /\ last = Response("init", NoneVal, 0, "", NoneVal, NoneVal)

NextConcurrent ==
    \/ \E r \in Requests, body \in SignupBodies : signup_check(r, body)
    \/ \E r \in Requests : signup_insert(r)
    \/ \E r \in Requests, token \in Credentials : refresh_load(r, token)
    \/ \E r \in Requests : refresh_store(r)
    \/ Tick

SpecConcurrent == InitConcurrent /\ [][NextConcurrent]_vars

-----------------------------------------------------------------------------
(* Properties of the auth flow, under Spec *)

\* the row of the user a refresh token names
UserOf(token) == get_user_by_email(token.sub)

\* the last request was a refresh whose token decoded (a validly signed,
\* unexpired refresh token) and differed from the token stored for its user
RefreshMismatched ==
    /\ last.op = "refresh_token"
    /\ TokenDecodes(last.arg)
    /\ last.arg # last.before.stored

\* the last request was a refresh that failed
RefreshFailed == last.op = "refresh_token" /\ last.status = 401 /\ last.result = NoneVal

\* the last request was a refresh presenting a token that an earlier refresh
\* had refused for not matching the stored token / had accepted
ReplayOfRejected ==
    /\ last.op = "refresh_token"
    /\ last.before.watched.token = last.arg
    /\ last.before.watched.event = "rejected"

ReplayOfAccepted ==
    /\ last.op = "refresh_token"
    /\ last.before.watched.token = last.arg
    /\ last.before.watched.event = "accepted"

\* a refresh whose token differs from the stored one fails with 401 "Invalid
\* refresh token" and leaves the stored token null
MismatchRevokes ==
    RefreshMismatched =>
        /\ last.status = 401
        /\ last.detail = "Invalid refresh token"
        /\ last.result = NoneVal
        /\ UserOf(last.arg).refresh_token = NoneVal

RequestStep == now' = now

\* C3: a signup for an email that is already registered fails with 409
\* "Account already exists", and the users table stays as it was, with
\* exactly one row of that email
C3_RepeatSignupConflicts ==
    [][(RequestStep /\ last'.op = "signup" /\ UserRows(last'.arg.email) # {}) =>
            /\ last'.status = 409
            /\ last'.detail = "Account already exists"
            /\ users' = users
            /\ Cardinality(UserRows(last'.arg.email)) = 1]_vars

\* C3 witness: a signup for a registered email was answered 409
C3_RepeatSignupSeen ==
    /\ last.op = "signup"
    /\ last.status = 409
    /\ Cardinality(UserRows(last.arg.email)) = 1

\* the user a login request names
LoginUser == get_user_by_email(last.arg.username)

\* C4: a login for a registered, unconfirmed user fails with 401 "Email not
\* confirmed", whatever the password, and no token is issued for that user
C4_UnconfirmedLoginFails ==
    (last.op = "login" /\ LoginUser # NoneVal /\ ~LoginUser.confirmed) =>
        /\ last.status = 401
        /\ last.detail = "Email not confirmed"
        /\ last.result = NoneVal
        /\ LoginUser.refresh_token = NoneVal
        /\ \A token \in issued : token.sub # last.arg.username

\* C4 witness: an unconfirmed user logged in with the password that is wrong
C4_UnconfirmedWrongPassword ==
    /\ last.op = "login"
    /\ LoginUser # NoneVal
    /\ ~LoginUser.confirmed
    /\ ~verify_password(last.arg.password, LoginUser.hash)
    /\ last.detail = "Email not confirmed"

IssuedTokenStored ==
    (last.op \in {"login", "refresh_token"} /\ last.status = 200) =>
        UserOf(last.result.refresh_token).refresh_token = last.result.refresh_token

C10_ConfirmedMonotone ==
    [][/\ \A i \in DOMAIN users' \ DOMAIN users : ~users'[i].confirmed
       /\ \A i \in DOMAIN users :
            users[i].confirmed => (i \in DOMAIN users' /\ users'[i].confirmed)]_vars

\* C10 witness: both users are confirmed, and a refresh has just revoked the
\* stored token of one of them
C10_ConfirmedUserRevoked ==
    /\ Len(users) = 2
    /\ \A i \in DOMAIN users : users[i].confirmed
    /\ last.op = "refresh_token"
    /\ last.detail = "Invalid refresh token"
    /\ last.before.stored # NoneVal

\* the user an email confirmation names, before and after the request
ConfirmUser == get_user_by_email(last'.arg.email)
ConfirmUserAfter == users'[ConfirmUser.id]

-----------------------------------------------------------------------------
(* Properties of the contact store and routes, under SpecContacts *)

\* the requests that look a contact up by id and owner
ByIdOps == {"read_contact", "update_contact", "delete_contact"}

\* C2: a read_contact, read_all_contacts, update_contact or delete_contact
\* made with one owner id neither returns a contact of another owner nor
\* removes or changes it
C2_OwnerScoping ==
    [][\A c \in contacts :
        (last'.op \in ByIdOps \cup {"read_all_contacts"} /\ last'.arg.user_id # c.user_id) =>
            /\ c \in contacts'
            /\ last'.op \in ByIdOps =>
                    (last'.result = NoneVal \/ last'.result.id # c.id)
            /\ last'.op = "read_all_contacts" =>
                    \A r \in last'.result.contacts : r.id # c.id]_vars

\* C2 witness: a user updated and then deleted by the id of another user's
\* contact, which is still stored
C2_ForeignIdTried ==
    /\ last.op = "delete_contact"
    /\ last.result = NoneVal
    /\ \E c \in contacts : c.id = last.arg.contact_id /\ c.user_id # last.arg.user_id

\* C7, as stated: update_contact on the id and owner of a stored contact
\* leaves that contact with every field of the body (name, last name, email,
\* phone number, birth date, notes) and returns it; on an id and owner that
\* match no contact it returns none and changes nothing
C7_UpdateOverwritesAllFields ==
    [][last'.op = "update_contact" =>
        LET contact == read_contact(last'.arg.contact_id, last'.arg.user_id)
            body == last'.arg.body
            updated == [contact EXCEPT !.name = body.name,
                                       !.last_name = body.last_name,
                                       !.email = body.email,
                                       !.phone_number = body.phone_number,
                                       !.birth_date = body.birth_date,
                                       !.rest = body.rest]
        IN  IF contact # NoneVal
            THEN /\ contacts' = (contacts \ {contact}) \cup {updated}
                 /\ last'.result.id = contact.id
                 /\ BodyOf(last'.result) = body
            ELSE /\ contacts' = contacts
                 /\ last'.result = NoneVal]_vars

\* C8: add_contact followed by read_contact with the returned id and the
\* same owner returns a contact with every field of the body, owned by the
\* caller
C8_AddThenRead ==
    last.op = "add_contact" =>
        LET read == read_contact(last.result.id, last.arg.user_id)
        IN  /\ read # NoneVal
            /\ read.id = last.result.id
            /\ read.user_id = last.arg.user_id
            /\ BodyOf(read) = last.arg.body

\* C8 witness: the second user added a contact while the first user had one
C8_ContactAdded ==
    /\ last.op = "add_contact"
    /\ last.arg.user_id = 2
    /\ \E c \in contacts : c.user_id = 1

\* C9, as stated: a GET, PUT or DELETE on /contacts/{id} whose lookup by id
\* and owner finds nothing is answered with 404
C9_MissingContactIs404 ==
    (last.op \in ByIdOps /\ last.result = NoneVal) => last.status = 404

\* C15: delete_contact on the id and owner of a stored contact removes that
\* contact and no other, and returns it, and read_contact for that id and
\* owner then returns none; on an id and owner that match no contact it
\* returns none and leaves the contacts as they were
C15_DeleteExactlyOne ==
    [][last'.op = "delete_contact" =>
        LET contact == read_contact(last'.arg.contact_id, last'.arg.user_id)
        IN  IF contact # NoneVal
            THEN /\ contacts' = contacts \ {contact}
                 /\ \A c \in contacts : c # contact => c \in contacts'
                 /\ last'.result = contact
                 /\ \A c \in contacts' : ~(/\ c.id = last'.arg.contact_id
                                            /\ c.user_id = last'.arg.user_id)
            ELSE /\ contacts' = contacts
                 /\ last'.result = NoneVal]_vars

\* C15 witness: a contact was deleted and returned while the same owner had
\* another contact, which is still stored
C15_DeletedOneOfTwo ==
    /\ last.op = "delete_contact"
    /\ last.result # NoneVal
    /\ last.result \notin contacts
    /\ read_contact(last.arg.contact_id, last.arg.user_id) = NoneVal
    /\ \E c \in contacts : c.user_id = last.arg.user_id

-----------------------------------------------------------------------------
(* Properties of the listing, under SpecRepository *)

\* the contacts of the owner a listing names that equal each filter the
\* listing supplies
OwnedAndEqual ==
    {c \in contacts :
        /\ c.user_id = last.arg.user_id
        /\ last.arg.name = "" \/ c.name = last.arg.name
        /\ last.arg.last_name = "" \/ c.last_name = last.arg.last_name
        /\ last.arg.email = "" \/ c.email = last.arg.email}

\* the number of rows a listing has to return when OwnedAndEqual are the
\* rows it selects from
PageLength ==
    LET n == Cardinality(OwnedAndEqual)
    IN  IF n <= last.arg.offset THEN 0
        ELSE IF n - last.arg.offset < last.arg.limit THEN n - last.arg.offset
        ELSE last.arg.limit

\* C14: read_all_contacts returns only stored contacts of the given owner
\* that equal every supplied filter (name, last_name, email) at once, never
\* more than limit of them (10 through the route), and a filter that is not
\* supplied excludes nothing: without the birthday filter the page is as
\* long as limit and offset leave it of the owner's contacts that equal the
\* supplied filters
C14_ListingFilters ==
    last.op = "read_all_contacts" =>
        /\ last.result.contacts \subseteq OwnedAndEqual
        /\ Cardinality(last.result.contacts) <= last.arg.limit
        /\ last.status = 200 => last.arg.limit = 10
        /\ ~last.arg.find_BD => Cardinality(last.result.contacts) = PageLength

\* C14 witness: a listing with limit 1 and a name filter returned one of two
\* contacts of the owner that have that name
C14_LimitCutsPage ==
    /\ last.op = "read_all_contacts"
    /\ last.arg.limit = 1
    /\ last.arg.name # ""
    /\ last.arg.last_name = ""
    /\ Cardinality(OwnedAndEqual) = 2
    /\ Cardinality(last.result.contacts) = 1

-----------------------------------------------------------------------------
(* Properties of the birthday filter, under SpecBirthdays *)

NextDay(date) ==
    IF date.d < DaysInMonth(date.y, date.m) THEN Date(date.y, date.m, date.d + 1)
    ELSE IF date.m < 12 THEN Date(date.y, date.m + 1, 1)
    ELSE Date(date.y + 1, 1, 1)

RECURSIVE PlusDays(_, _)
PlusDays(date, days) == IF days = 0 THEN date ELSE PlusDays(NextDay(date), days - 1)

\* the month and day of a are those of b
SameMonthDay(a, b) == a.m = b.m /\ a.d = b.d

\* the stored contact
TheContact == CHOOSE c \in contacts : TRUE

\* the last request evaluated the filter with look-ahead n / and matched
FilterAsked(n) == last.op = "has_birthday_next_days" /\ last.arg.next_days = n
FilterMatched == TheContact \in last.result.contacts

\* the birthday of the stored contact lies exactly n days before / after today
BirthdayDaysAgo(n) == SameMonthDay(TheContact.birth_date, MinusDays(today, n))
BirthdayDaysAhead(n) == SameMonthDay(TheContact.birth_date, PlusDays(today, n))

\* C12, as stated: a contact whose birth month/day lies exactly N days before
\* today is matched by the filter with look-ahead N = 7 and not matched with
\* N = 0
C12_BirthdayDaysAgoIncluded ==
    /\ (FilterAsked(7) /\ BirthdayDaysAgo(7)) => FilterMatched
    /\ (FilterAsked(0) /\ BirthdayDaysAgo(0)) => ~FilterMatched

\* C12, amended: a contact whose birth month/day lies exactly N days before
\* today is not matched, with look-ahead N = 7 as with N = 0; with look-ahead
\* 7 a contact whose birth month/day lies 1 to 6 days after today is matched
C12_BirthdayAheadIncluded ==
    /\ \A n \in LookAheads : (FilterAsked(n) /\ BirthdayDaysAgo(n)) => ~FilterMatched
    /\ (FilterAsked(7) /\ \E k \in 1..6 : BirthdayDaysAhead(k)) => FilterMatched

\* C12 witness: the filter with look-ahead 7 was evaluated on a contact born
\* in an earlier year whose birthday was 7 days ago, in the year before
\* today's, and did not match
C12_BirthdayWeekAgo ==
    /\ FilterAsked(7)
    /\ BirthdayDaysAgo(7)
    /\ MinusDays(today, 7).y < today.y
    /\ ~FilterMatched

\* the birthday of the stored contact falls on one of the next 7 days
BirthdayInNext7Days == \E k \in 1..7 : BirthdayDaysAhead(k)

\* C13, as stated: read_all_contacts with find_BD returns the owner's contact
\* exactly when its birthday falls on one of the next 7 days (a birth date of
\* 29 February is left open: it has no month/day in a common year)
C13_UpcomingBirthdayExact ==
    (/\ last.op = "read_all_contacts"
     /\ last.arg.find_BD
     /\ last.arg.user_id = TheContact.user_id
     /\ ~SameMonthDay(TheContact.birth_date, Date(2000, 2, 29))) =>
        (TheContact \in last.result.contacts <=> BirthdayInNext7Days)

-----------------------------------------------------------------------------
(* Properties of requests that overlap, under SpecConcurrent *)

\* requests a and b of one kind have both been answered, and b came in while
\* a was between its two steps
Overlapped(op, a, b) ==
    /\ a # b
    /\ inflight[a].op = op /\ inflight[a].pc = "done"
    /\ inflight[b].op = op /\ inflight[b].pc = "done"
    /\ a \in inflight[b].during

\* C16, as stated: whatever the order of the checks and inserts of two
\* signups for one unregistered email that overlap, there is never more than
\* one row with that email, and the signup that did not create the user was
\* answered 409
C16_ConcurrentSignupConflicts ==
    /\ \A email \in Emails : Cardinality(UserRows(email)) <= 1
    /\ \A a, b \in Requests :
            (Overlapped("signup", a, b) /\ inflight[a].arg.email = inflight[b].arg.email) =>
                \A r \in {a, b} :
                    inflight[r].response.status # 201 => inflight[r].response.status = 409

\* the stored refresh token of the user a refresh request names
StoredFor(r) == get_user_by_email(inflight[r].arg.sub).refresh_token

\* request r was answered with a new token pair
Succeeded(r) == inflight[r].response.status = 200

\* request r presented the token that was stored when it loaded the user, and
\* was issued a token that differs from it
PresentedStored(r) ==
    /\ inflight[r].user # NoneVal
    /\ inflight[r].user.refresh_token = inflight[r].arg
    /\ inflight[r].pending # inflight[r].arg

\* C17, as stated: of two refresh requests that overlap and present the same
\* refresh token, which was the stored one when each loaded the user, at most
\* one succeeds (requests that are issued the very token they presented are
\* left aside)
C17_ConcurrentRefreshOneSucceeds ==
    \A a, b \in Requests :
        (/\ Overlapped("refresh_token", a, b)
         /\ inflight[a].arg = inflight[b].arg
         /\ PresentedStored(a)
         /\ PresentedStored(b)) =>
            ~(Succeeded(a) /\ Succeeded(b))

====
